---- MODULE Spec2Model ----
(***************************************************************************)
(* A model of scripts/merge_items.py: the loaders, item_key, merge_items   *)
(* (base loop, overlay loop, sort, key normalisation), write_items, main.  *)
(*                                                                         *)
(* Text is a sequence of code points, so that lower(), strip() and the     *)
(* ordering of str are computed and not assumed.  A JSON value is a        *)
(* record [t, v]: t the Python type, v a sequence of integers holding the  *)
(* payload.  A dict is a sequence of <<key, value>> pairs in insertion     *)
(* order, as a Python dict keeps it.  Dicts live in a heap and lists hold  *)
(* references, so that aliasing and copying are told apart.                *)
(***************************************************************************)
EXTENDS Integers, Sequences, FiniteSets, TLC

VARIABLES
  pc,               \* position of main: start, metaforge_loaded, ...
  err,              \* the exception that ended the run, or "none"
  heap,             \* reference -> [isdict, fields]: every object alive
  loaded,           \* history: the heap as the loaders returned it
  metaforge_items,  \* main's local: list of references
  raidtheory_items, \* main's local: list of references
  merged,           \* merge_items' local dict: <<key, reference>> pairs
  merged_items,     \* main's local: the list merge_items returned
  out_keys,         \* history: out_keys[i] is the key merged_items[i] was stored under
  output_file,      \* content of OUTPUT_PATH
  calls,            \* history: how often each collaborator was invoked
  key_item,         \* item_key harness: the argument
  key_out,          \* item_key harness: the result
  key_pc,           \* item_key harness: position
  canon_in,         \* canonicalization harness: the argument
  canon_once,       \* canonicalization harness: after one application
  canon_twice,      \* canonicalization harness: after two applications
  canon_pc          \* canonicalization harness: position

vars == <<pc, err, heap, loaded, metaforge_items, raidtheory_items, merged,
          merged_items, out_keys, output_file, calls,
          key_item, key_out, key_pc, canon_in, canon_once, canon_twice, canon_pc>>

main_vars == <<pc, err, heap, loaded, metaforge_items, raidtheory_items, merged,
               merged_items, out_keys, output_file, calls>>

key_vars == <<key_item, key_out, key_pc>>

canon_vars == <<canon_in, canon_once, canon_twice, canon_pc>>

---------------------------------------------------------------------------
(* Bounds of the model *)

MaxPrimary == 2

MaxSecondary == 2

MaxCanon == 3

---------------------------------------------------------------------------
(* Text: code points, ordering, lower(), strip(), str() of an int *)

Ord(c) ==
  CASE c = "\t" -> 9   [] c = " " -> 32  [] c = "\"" -> 34 [] c = "'" -> 39
    [] c = "," -> 44   [] c = "-" -> 45  [] c = "." -> 46
    [] c = "0" -> 48   [] c = "1" -> 49  [] c = "2" -> 50  [] c = "3" -> 51
    [] c = "4" -> 52   [] c = "5" -> 53  [] c = "6" -> 54  [] c = "7" -> 55
    [] c = "8" -> 56   [] c = "9" -> 57  [] c = ":" -> 58
    [] c = "A" -> 65   [] c = "B" -> 66  [] c = "D" -> 68  [] c = "F" -> 70
    [] c = "N" -> 78   [] c = "T" -> 84
    [] c = "[" -> 91   [] c = "]" -> 93
    [] c = "a" -> 97   [] c = "b" -> 98  [] c = "c" -> 99  [] c = "d" -> 100
    [] c = "e" -> 101  [] c = "f" -> 102 [] c = "g" -> 103 [] c = "i" -> 105
    [] c = "k" -> 107  [] c = "l" -> 108 [] c = "m" -> 109 [] c = "n" -> 110
    [] c = "o" -> 111  [] c = "p" -> 112 [] c = "r" -> 114 [] c = "s" -> 115
    [] c = "t" -> 116  [] c = "u" -> 117 [] c = "x" -> 120 [] c = "y" -> 121
    [] c = "{" -> 123  [] c = "}" -> 125

\* The text whose characters are cs, e.g. Text(<<"i", "d">>) is "id".
Text(cs) == [i \in 1..Len(cs) |-> Ord(cs[i])]

Min(a, b) == IF a <= b THEN a ELSE b

\* The element of a one-element set.  Only({F(x) : x \in {e}}) is F(e) with e
\* evaluated once, before F is.
Only(S) == CHOOSE r \in S : TRUE

\* a < b for str: by code point, a proper prefix first.
StrLess(a, b) ==
  \E k \in 0..Min(Len(a), Len(b)) :
    /\ \A i \in 1..k : a[i] = b[i]
    /\ \/ k = Len(a) /\ k < Len(b)
       \/ k < Len(a) /\ k < Len(b) /\ a[k + 1] < b[k + 1]

\* str.lower() on ASCII text.
Lower(s) == [i \in 1..Len(s) |-> IF s[i] >= 65 /\ s[i] <= 90 THEN s[i] + 32 ELSE s[i]]

IsSpace(c) == c \in {9, 10, 11, 12, 13, 32}

\* str.strip(): leading and trailing whitespace removed.
Strip(s) ==
  LET keep == {i \in 1..Len(s) : ~IsSpace(s[i])}
  IN IF keep = {} THEN <<>>
     ELSE LET lo == CHOOSE i \in keep : \A j \in keep : i <= j
              hi == CHOOSE i \in keep : \A j \in keep : j <= i
          IN SubSeq(s, lo, hi)

RECURSIVE NatStr(_)
NatStr(n) == IF n < 10 THEN <<48 + n>> ELSE NatStr(n \div 10) \o <<48 + (n % 10)>>

\* str(n) and json.dumps(n) of an int.
IntStr(n) == IF n < 0 THEN Text(<<"-">>) \o NatStr(0 - n) ELSE NatStr(n)

\* sep.join(parts)
RECURSIVE Join(_, _)
Join(parts, sep) ==
  IF Len(parts) = 0 THEN <<>>
  ELSE IF Len(parts) = 1 THEN parts[1]
  ELSE parts[1] \o sep \o Join(Tail(parts), sep)

---------------------------------------------------------------------------
(* JSON values *)

Str(cs) == [t |-> "str", v |-> Text(cs)]

Int_(n) == [t |-> "int", v |-> <<n>>]

Bool(b) == [t |-> "bool", v |-> IF b THEN <<1>> ELSE <<0>>]

None == [t |-> "null", v |-> <<>>]

\* A float w.d with one decimal digit, e.g. Float(1, 5) is 1.5.
Float(w, d) == [t |-> "float", v |-> <<w, d>>]

\* A list of ints.
List(ns) == [t |-> "list", v |-> ns]

\* A mapping from one-character names to ints, flattened: <<name, int, name, int, ...>>.
Dict(kvs) == [t |-> "dict", v |-> [i \in 1..Len(kvs) |-> IF i % 2 = 1 THEN Ord(kvs[i]) ELSE kvs[i]]]

\* str(value)
PyStr(val) ==
  CASE val.t = "str" -> val.v
    [] val.t = "int" -> IntStr(val.v[1])
    [] val.t = "bool" -> IF val.v[1] = 1 THEN Text(<<"T", "r", "u", "e">>)
                         ELSE Text(<<"F", "a", "l", "s", "e">>)
    [] val.t = "null" -> Text(<<"N", "o", "n", "e">>)
    [] val.t = "float" -> IntStr(val.v[1]) \o Text(<<".">>) \o IntStr(val.v[2])
    [] val.t = "list" ->
         Text(<<"[">>) \o Join([i \in 1..Len(val.v) |-> IntStr(val.v[i])], Text(<<",", " ">>))
                       \o Text(<<"]">>)
    [] val.t = "dict" ->
         Text(<<"{">>)
         \o Join([i \in 1..(Len(val.v) \div 2) |->
                   Text(<<"'">>) \o <<val.v[2 * i - 1]>> \o Text(<<"'", ":", " ">>)
                   \o IntStr(val.v[2 * i])], Text(<<",", " ">>))
         \o Text(<<"}">>)

\* json.dumps(value); the nested mapping's names are already in sorted order
\* when there is at most one.
JsonValue(val) ==
  CASE val.t = "str" -> Text(<<"\"">>) \o val.v \o Text(<<"\"">>)
    [] val.t = "int" -> IntStr(val.v[1])
    [] val.t = "bool" -> IF val.v[1] = 1 THEN Text(<<"t", "r", "u", "e">>)
                         ELSE Text(<<"f", "a", "l", "s", "e">>)
    [] val.t = "null" -> Text(<<"n", "u", "l", "l">>)
    [] val.t = "float" -> IntStr(val.v[1]) \o Text(<<".">>) \o IntStr(val.v[2])
    [] val.t = "list" ->
         Text(<<"[">>) \o Join([i \in 1..Len(val.v) |-> IntStr(val.v[i])], Text(<<",", " ">>))
                       \o Text(<<"]">>)
    [] val.t = "dict" ->
         Text(<<"{">>)
         \o Join([i \in 1..(Len(val.v) \div 2) |->
                   Text(<<"\"">>) \o <<val.v[2 * i - 1]>> \o Text(<<"\"", ":", " ">>)
                   \o IntStr(val.v[2 * i])], Text(<<",", " ">>))
         \o Text(<<"}">>)

\* isinstance(value, (str, int)); bool is a subclass of int.
IsStrOrIntNoBool(val) == val.t \in {"str", "int"}

IsStrOrInt(val) == val.t \in {"str", "int", "bool"}

\* v in (None, "", [], {}): equality with one of the four empty values.
IsEmptyFalsy(val) ==
  \/ val.t = "null"
  \/ val.t \in {"str", "list", "dict"} /\ Len(val.v) = 0
  \/ val.t \in {"int", "bool"} /\ val.v[1] = 0

IsEmpty(val) ==
  \/ val.t = "null"
  \/ val.t \in {"str", "list", "dict"} /\ Len(val.v) = 0

---------------------------------------------------------------------------
(* dict: a sequence of <<key, value>> pairs in insertion order *)

Keys(d) == [i \in 1..Len(d) |-> d[i][1]]

Has(d, k) == \E i \in 1..Len(d) : d[i][1] = k

\* d[k], for k in d
At(d, k) == d[CHOOSE i \in 1..Len(d) : d[i][1] = k][2]

\* d.get(k, default)
Get(d, k, default) == IF Has(d, k) THEN At(d, k) ELSE default

\* d[k] = v: an existing key keeps its place, a new one goes last.
SetItemAppend(d, k, v) == Append(d, <<k, v>>)

SetItem(d, k, v) ==
  IF Has(d, k) THEN [i \in 1..Len(d) |-> IF d[i][1] = k THEN <<k, v>> ELSE d[i]]
  ELSE Append(d, <<k, v>>)

\* a < b for tuples of str: by the first position where they differ.
TupleLess(a, b) ==
  \E k \in 0..Min(Len(a), Len(b)) :
    /\ \A i \in 1..k : a[i] = b[i]
    /\ \/ k = Len(a) /\ k < Len(b)
       \/ k < Len(a) /\ k < Len(b) /\ StrLess(a[k + 1], b[k + 1])

\* The indices of ks (tuples of str) not yet in done, appended to done in
\* ascending order, equal elements in their original order.
RECURSIVE SortedIndices(_, _)
SortedIndices(ks, done) ==
  IF Len(done) = Len(ks) THEN done
  ELSE Only({ SortedIndices(ks, Append(done, next)) :
                next \in { i \in 1..Len(ks) :
                             /\ \A j \in 1..Len(done) : done[j] # i
                             /\ \A j \in 1..Len(ks) :
                                  \/ j = i
                                  \/ \E d \in 1..Len(done) : done[d] = j
                                  \/ TupleLess(ks[i], ks[j])
                                  \/ ~TupleLess(ks[j], ks[i]) /\ i < j } })

\* An ascending sort that puts equal elements in reverse order.
SortReversingTies(ks) ==
  Only({ [i \in 1..Len(p) |-> Len(p) + 1 - p[i]] :
           p \in { SortedIndices(r, <<>>) :
                     r \in {[i \in 1..Len(ks) |-> ks[Len(ks) + 1 - i]]} } })

\* list.sort(key=...) and sorted(): the order of the indices; the sort is stable.
StableSort(ks) == Only({SortedIndices(k, <<>>) : k \in {ks}})

---------------------------------------------------------------------------
(* Field names *)

F_id == Text(<<"i", "d">>)

F_slug == Text(<<"s", "l", "u", "g">>)

F_name == Text(<<"n", "a", "m", "e">>)

F_x == Text(<<"x">>)

F_y == Text(<<"y">>)

---------------------------------------------------------------------------
(* item_key, lines 93-106 *)

\* json.dumps(item, sort_keys=True)
JsonDumpsSorted(item) ==
  Only({ Text(<<"{">>)
         \o Join([i \in 1..Len(item) |->
                   Text(<<"\"">>) \o item[p[i]][1] \o Text(<<"\"", ":", " ">>)
                   \o JsonValue(item[p[i]][2])], Text(<<",", " ">>))
         \o Text(<<"}">>) :
           p \in {StableSort([i \in 1..Len(item) |-> <<item[i][1]>>])} })

\* The fields item_key tries, in order.
KeyFields == <<F_id, F_slug, F_name>>

RECURSIVE item_key_from(_, _)
item_key_from(item, n) ==
  IF n > Len(KeyFields) THEN JsonDumpsSorted(item)
  ELSE LET value == Get(item, KeyFields[n], None)
       IN IF IsStrOrInt(value) THEN Strip(Lower(PyStr(value)))
          ELSE item_key_from(item, n + 1)

item_key(item) == item_key_from(item, 1)

---------------------------------------------------------------------------
(* The sort and the key normalisation of merge_items, lines 149-162 *)

\* sort_key(it): (str(name).lower(), str(id).lower()), "" for an absent field.
sort_key_no_lower(it) ==
  << PyStr(Get(it, F_name, Str(<<>>))), PyStr(Get(it, F_id, Str(<<>>))) >>

sort_key(it) ==
  << Lower(PyStr(Get(it, F_name, Str(<<>>)))), Lower(PyStr(Get(it, F_id, Str(<<>>)))) >>

\* items_list.sort(key=sort_key): the order of the indices.
sort_unstable(items) == SortReversingTies([i \in 1..Len(items) |-> sort_key(items[i])])

sort_order(items) == StableSort([i \in 1..Len(items) |-> sort_key(items[i])])

\* {k: item[k] for k in sorted(item.keys())}
sorted_fields(item) ==
  Only({ [i \in 1..Len(item) |-> item[p[i]]] :
           p \in {StableSort([i \in 1..Len(item) |-> <<item[i][1]>>])} })

\* Lines 155-162 on a list of dicts: sort, then rebuild each with sorted fields.
canonicalize(items) ==
  Only({ [i \in 1..Len(items) |-> sorted_fields(items[p[i]])] : p \in {sort_order(items)} })

---------------------------------------------------------------------------
(* merge_items, lines 109-162 *)

\* A dict object and a JSON value that is not a dict (it has no .get, no .items).
Obj(fields) == [isdict |-> TRUE, fields |-> fields]

NotADict == [isdict |-> FALSE, fields |-> <<>>]

\* dict(item): a new object with the same fields; the values are shared, and
\* merge_items never changes a value in place.
dict_alias(h, ref) == [heap |-> h, ref |-> ref]

dict_copy(h, ref) == [heap |-> Append(h, h[ref]), ref |-> Len(h) + 1]

\* Line 137, merged[key] = dict(item) for a key not yet in merged.
RECURSIVE NonEmptyFields(_)
NonEmptyFields(fields) ==
  IF Len(fields) = 0 THEN <<>>
  ELSE IF IsEmpty(fields[1][2]) THEN NonEmptyFields(Tail(fields))
  ELSE <<fields[1]>> \o NonEmptyFields(Tail(fields))

added_entry_dropping_empty(h, ref) ==
  [heap |-> Append(h, Obj(NonEmptyFields(h[ref].fields))), ref |-> Len(h) + 1]

added_entry(h, ref) == dict_copy(h, ref)

\* Line 134, the guard of the overlay.
overlay_unguarded(v) == TRUE

overlay_truthy(v) == ~IsEmptyFalsy(v)

overlays(v) == ~IsEmpty(v)

\* Lines 133-135: for k, v in item.items(): if v not in (...): base[k] = v
RECURSIVE overlay(_, _, _)
overlay(base, item, n) ==
  IF n > Len(item) THEN base
  ELSE Only({ overlay(b, item, n + 1) :
                b \in { IF overlays(item[n][2]) THEN SetItem(base, item[n][1], item[n][2])
                        ELSE base } })

\* merged[key] = ref, lines 125 and 137.
merged_append(m, key, ref) == SetItemAppend(m, key, ref)

merged_set(m, key, ref) == SetItem(m, key, ref)

\* Lines 123-125, from the n-th item on.  item.get on a value that is not a
\* dict raises AttributeError, which ends merge_items.
RECURSIVE base_loop(_, _, _)
base_loop(st, items, n) ==
  IF n > Len(items) \/ st.raised THEN st
  ELSE IF ~st.heap[items[n]].isdict THEN [st EXCEPT !.raised = TRUE]
  ELSE Only({ base_loop(next, items, n + 1) :
                next \in { [raised |-> FALSE, heap |-> c.heap,
                            merged |-> merged_set(st.merged, item_key(st.heap[items[n]].fields),
                                                  c.ref)] :
                             c \in {dict_copy(st.heap, items[n])} } })

\* Lines 128-137, from the n-th item on.
RECURSIVE overlay_loop(_, _, _)
overlay_loop(st, items, n) ==
  IF n > Len(items) \/ st.raised THEN st
  ELSE IF ~st.heap[items[n]].isdict THEN [st EXCEPT !.raised = TRUE]
  ELSE Only({ overlay_loop(next, items, n + 1) :
                next \in { IF Has(st.merged, key)
                           THEN [st EXCEPT !.heap[At(st.merged, key)].fields =
                                             overlay(@, st.heap[items[n]].fields, 1)]
                           ELSE Only({ [raised |-> FALSE, heap |-> c.heap,
                                        merged |-> merged_set(st.merged, key, c.ref)] :
                                         c \in {added_entry(st.heap, items[n])} }) :
                             key \in {item_key(st.heap[items[n]].fields)} } })

\* merge_items(metaforge_items, raidtheory_items) on heap h: whether it raised,
\* the heap it leaves, its local merged, the list it returns, and for each
\* returned record the key it was stored under.
merge_items(h, mf, rt) ==
  Only({ IF st.raised
         THEN [raised |-> TRUE, heap |-> st.heap, merged |-> st.merged,
               normalized |-> <<>>, keys |-> <<>>]
         ELSE Only({ [raised |-> FALSE, heap |-> st.heap, merged |-> st.merged,
                      normalized |-> canonicalize(items_list),
                      keys |-> Only({ [i \in 1..Len(p) |-> st.merged[p[i]][1]] :
                                        p \in {sort_order(items_list)} })] :
                       items_list \in
                         {[i \in 1..Len(st.merged) |-> st.heap[st.merged[i][2]].fields]} }) :
           st \in { overlay_loop(b, rt, 1) :
                    b \in { base_loop(s0, mf, 1) :
                            s0 \in {[raised |-> FALSE, heap |-> h, merged |-> <<>>]} } } })

---------------------------------------------------------------------------
(* The loaders, lines 34-88 *)

\* Parsed JSON at the top level: a list, a dict (entries: name -> whether the
\* value is a list, and the list), or anything else.
JsonList(items) == [kind |-> "list", items |-> items, entries |-> <<>>]

JsonDict(entries) == [kind |-> "dict", items |-> <<>>, entries |-> entries]

JsonOther == [kind |-> "other", items |-> <<>>, entries |-> <<>>]

AList(items) == [islist |-> TRUE, items |-> items]

NotAList == [islist |-> FALSE, items |-> <<>>]

\* for key in ("items", "data", "results")
ListKeys == <<"items", "data", "results">>

\* Lines 44-49 and 76-81: the first of the keys that is in data and holds a list.
RECURSIVE first_list(_, _)
first_list(entries, n) ==
  IF n > Len(ListKeys) THEN [ok |-> FALSE, err |-> "ValueError", items |-> <<>>]
  ELSE IF Has(entries, ListKeys[n]) /\ At(entries, ListKeys[n]).islist
       THEN [ok |-> TRUE, err |-> "none", items |-> At(entries, ListKeys[n]).items]
       ELSE first_list(entries, n + 1)

\* Lines 42-53 and 75-85.
unwrap(data) ==
  IF data.kind = "dict" THEN first_list(data.entries, 1)
  ELSE IF data.kind = "list" THEN [ok |-> TRUE, err |-> "none", items |-> data.items]
  ELSE [ok |-> FALSE, err |-> "ValueError", items |-> <<>>]

\* load_metaforge_items on what the network gives: requests.get raises, or
\* raise_for_status raises, or resp.json() raises, or data is parsed.
load_metaforge_items(resp) ==
  IF resp.fetch = "connection_error"
  THEN [ok |-> FALSE, err |-> "RequestException", items |-> <<>>]
  ELSE IF resp.fetch = "http_error" THEN [ok |-> FALSE, err |-> "HTTPError", items |-> <<>>]
  ELSE IF resp.fetch = "invalid_json"
  THEN [ok |-> FALSE, err |-> "JSONDecodeError", items |-> <<>>]
  ELSE unwrap(resp.data)

\* load_raidtheory_items on what the file system gives.
load_raidtheory_items(file) ==
  IF ~file.exists THEN [ok |-> TRUE, err |-> "none", items |-> <<>>]
  ELSE IF ~file.valid THEN [ok |-> FALSE, err |-> "JSONDecodeError", items |-> <<>>]
  ELSE unwrap(file.data)

\* write_items: the file holds the items afterwards.
write_items(items) == [written |-> TRUE, items |-> items]

---------------------------------------------------------------------------
(* The inputs the model draws from *)

Seqs(pool, max) == UNION {[1..n -> pool] : n \in 0..max}

P_a == Obj(<< <<F_id, Str(<<"a">>)>>, <<F_x, Str(<<"p">>)>>, <<F_y, List(<<1>>)>> >>)

P_a2 == Obj(<< <<F_x, Int_(1)>>, <<F_id, Str(<<"A", " ">>)>> >>)

P_a3 == Obj(<< <<F_slug, Str(<<"b">>)>>, <<F_id, Str(<<"a">>)>>, <<F_name, Str(<<"N">>)>> >>)

P_b == Obj(<< <<F_id, Str(<<"b">>)>>, <<F_name, Str(<<"n">>)>> >>)

P_c == Obj(<< <<F_slug, Str(<<"c">>)>>, <<F_name, Str(<<"n">>)>> >>)

S_a_empty == Obj(<< <<F_id, Str(<<"a">>)>>, <<F_x, Str(<<>>)>>, <<F_y, List(<<>>)>> >>)

S_a_zero == Obj(<< <<F_id, Str(<<"a">>)>>, <<F_x, Int_(0)>> >>)

S_a_null == Obj(<< <<F_id, Str(<<"A">>)>>, <<F_x, None>>, <<F_y, Dict(<<>>)>> >>)

S_a_by_name == Obj(<< <<F_id, List(<<1>>)>>, <<F_name, Str(<<"a">>)>> >>)

S_d == Obj(<< <<F_slug, Str(<<"d">>)>>, <<F_name, Str(<<"N">>)>>, <<F_x, Str(<<>>)>> >>)

S_d2 == Obj(<< <<F_name, Str(<<"D", " ">>)>> >>)

S_nokey == Obj(<< <<F_y, Bool(TRUE)>>, <<F_x, Float(1, 5)>> >>)

PrimaryPool == {P_a, P_a2, P_a3, P_b, P_c, NotADict}

SecondaryPool == {S_a_empty, S_a_zero, S_a_null, S_a_by_name, S_d, S_d2, S_nokey, NotADict}

\* The top-level shapes that hold the list items, and those that hold none.
Wrapped(items) ==
  { JsonList(items),
    JsonDict(<< <<"items", AList(items)>> >>),
    JsonDict(<< <<"items", NotAList>>, <<"data", AList(items)>> >>),
    JsonDict(<< <<"results", AList(items)>>, <<"other", NotAList>> >>),
    JsonDict(<< <<"results", AList(<<>>)>>, <<"data", AList(items)>> >>) }

Unrecognized ==
  { JsonOther, JsonDict(<<>>), JsonDict(<< <<"items", NotAList>> >>),
    JsonDict(<< <<"other", AList(<<>>)>> >>) }

MetaforgeResponses ==
  {[fetch |-> f, data |-> JsonOther] : f \in {"connection_error", "http_error", "invalid_json"}}
  \cup {[fetch |-> "ok", data |-> d] : d \in Unrecognized}
  \cup {[fetch |-> "ok", data |-> d] :
          d \in UNION {Wrapped(items) : items \in Seqs(PrimaryPool, MaxPrimary)}}

RaidtheoryFiles ==
  { [exists |-> FALSE, valid |-> FALSE, data |-> JsonOther],
    [exists |-> TRUE, valid |-> FALSE, data |-> JsonOther] }
  \cup {[exists |-> TRUE, valid |-> TRUE, data |-> d] : d \in Unrecognized}
  \cup {[exists |-> TRUE, valid |-> TRUE, data |-> d] :
          d \in UNION {Wrapped(items) : items \in Seqs(SecondaryPool, MaxSecondary)}}

\* What OUTPUT_PATH holds before the run.
OldOutput == [written |-> FALSE, items |-> <<>>]

\* Per collaborator, how often main called it, and for the loaders how often
\* the call returned a list.
NoCalls ==
  [metaforge |-> 0, metaforge_returned |-> 0, raidtheory |-> 0, raidtheory_returned |-> 0,
   merge |-> 0, write |-> 0]

---------------------------------------------------------------------------
(* main, lines 177-181 *)

MainInit ==
  /\ pc = "start"
  /\ err = "none"
  /\ heap = <<>>
  /\ loaded = <<>>
  /\ metaforge_items = <<>>
  /\ raidtheory_items = <<>>
  /\ merged = <<>>
  /\ merged_items = <<>>
  /\ out_keys = <<>>
  /\ output_file = OldOutput
  /\ calls = NoCalls

\* Line 178
main_load_metaforge ==
  /\ pc = "start"
  /\ \E resp \in MetaforgeResponses :
       \E r \in {load_metaforge_items(resp)} :
          IF r.ok
          THEN /\ heap' = r.items
               /\ metaforge_items' = [i \in 1..Len(r.items) |-> i]
               /\ pc' = "metaforge_loaded"
               /\ err' = err
          ELSE /\ pc' = "raised"
               /\ err' = r.err
               /\ UNCHANGED <<heap, metaforge_items>>
  /\ loaded' = heap'
  /\ calls' = [calls EXCEPT !.metaforge = @ + 1,
                            !.metaforge_returned = IF pc' = "raised" THEN @ ELSE @ + 1]
  /\ UNCHANGED <<raidtheory_items, merged, merged_items, out_keys, output_file>>
  /\ UNCHANGED <<key_vars, canon_vars>>

\* Line 179
main_load_raidtheory ==
  /\ pc = "metaforge_loaded"
  /\ \E file \in RaidtheoryFiles :
       \E r \in {load_raidtheory_items(file)} :
          IF r.ok
          THEN /\ heap' = heap \o r.items
               /\ raidtheory_items' = [i \in 1..Len(r.items) |-> Len(heap) + i]
               /\ pc' = "raidtheory_loaded"
               /\ err' = err
          ELSE /\ pc' = "raised"
               /\ err' = r.err
               /\ UNCHANGED <<heap, raidtheory_items>>
  /\ loaded' = heap'
  /\ calls' = [calls EXCEPT !.raidtheory = @ + 1,
                            !.raidtheory_returned = IF pc' = "raised" THEN @ ELSE @ + 1]
  /\ UNCHANGED <<metaforge_items, merged, merged_items, out_keys, output_file>>
  /\ UNCHANGED <<key_vars, canon_vars>>

\* Line 180
main_merge ==
  /\ pc = "raidtheory_loaded"
  /\ \E r \in {merge_items(heap, metaforge_items, raidtheory_items)} :
        /\ heap' = r.heap
        /\ merged' = r.merged
        /\ IF r.raised
           THEN /\ pc' = "raised"
                /\ err' = "AttributeError"
                /\ UNCHANGED <<merged_items, out_keys>>
           ELSE /\ pc' = "merged"
                /\ err' = err
                /\ merged_items' = r.normalized
                /\ out_keys' = r.keys
  /\ calls' = [calls EXCEPT !.merge = @ + 1]
  /\ UNCHANGED <<loaded, metaforge_items, raidtheory_items, output_file>>
  /\ UNCHANGED <<key_vars, canon_vars>>

\* Line 181
main_write ==
  /\ pc = "merged"
  /\ output_file' = write_items(merged_items)
  /\ pc' = "done"
  /\ calls' = [calls EXCEPT !.write = @ + 1]
  /\ UNCHANGED <<err, heap, loaded, metaforge_items, raidtheory_items, merged,
                 merged_items, out_keys>>
  /\ UNCHANGED <<key_vars, canon_vars>>

---------------------------------------------------------------------------
(* item_key applied to one record *)

KeyValues ==
  { Str(<<"a">>), Str(<<" ", "A", "b", "\t">>), Str(<<>>), Int_(7), Int_(-12), Bool(TRUE),
    None, Float(1, 5), List(<<1>>), Dict(<<"k", 1>>) }

\* The records with each of id, slug, name absent or holding one of KeyValues,
\* in two field orders.
KeyItems ==
  LET opt(f) == {<<>>} \cup {<< <<f, v>> >> : v \in KeyValues}
  IN {a \o b \o c : a \in opt(F_id), b \in opt(F_slug), c \in opt(F_name)}
     \cup {c \o b \o a : a \in opt(F_id), b \in opt(F_slug), c \in opt(F_name)}

KeyIdle == key_item = <<>> /\ key_out = <<>> /\ key_pc = "off"

KeyInit == key_item \in KeyItems /\ key_out = <<>> /\ key_pc = "call"

key_call ==
  /\ key_pc = "call"
  /\ key_out' = item_key(key_item)
  /\ key_pc' = "returned"
  /\ UNCHANGED <<key_item, main_vars, canon_vars>>

---------------------------------------------------------------------------
(* The sort and normalisation applied twice to one list of records *)

C_n1 == << <<F_slug, Str(<<"b">>)>>, <<F_name, Str(<<"N">>)>> >>

C_n2 == << <<F_name, Str(<<"n">>)>>, <<F_slug, Str(<<"a">>)>> >>

C_none == << <<F_name, None>> >>

C_id == << <<F_x, Int_(1)>>, <<F_id, Str(<<"B">>)>> >>

C_id2 == << <<F_id, Str(<<"b">>)>>, <<F_y, Int_(2)>> >>

C_int == << <<F_name, Int_(10)>>, <<F_id, Int_(9)>> >>

CanonPool == {C_n1, C_n2, C_none, C_id, C_id2, C_int}

CanonIdle == canon_in = <<>> /\ canon_once = <<>> /\ canon_twice = <<>> /\ canon_pc = "off"

CanonInit ==
  /\ canon_in \in Seqs(CanonPool, MaxCanon)
  /\ canon_once = <<>>
  /\ canon_twice = <<>>
  /\ canon_pc = "input"

canon_first ==
  /\ canon_pc = "input"
  /\ canon_once' = canonicalize(canon_in)
  /\ canon_pc' = "once"
  /\ UNCHANGED <<canon_in, canon_twice, main_vars, key_vars>>

canon_second ==
  /\ canon_pc = "once"
  /\ canon_twice' = canonicalize(canon_once)
  /\ canon_pc' = "twice"
  /\ UNCHANGED <<canon_in, canon_once, main_vars, key_vars>>

---------------------------------------------------------------------------
(* Specifications *)

Init == MainInit /\ KeyIdle /\ CanonIdle

Next == main_load_metaforge \/ main_load_raidtheory \/ main_merge \/ main_write

Spec == Init /\ [][Next]_vars

InitKey == MainInit /\ KeyInit /\ CanonIdle

NextKey == key_call

SpecKey == InitKey /\ [][NextKey]_vars

InitCanon == MainInit /\ KeyIdle /\ CanonInit

NextCanon == canon_first \/ canon_second

SpecCanon == InitCanon /\ [][NextCanon]_vars

---------------------------------------------------------------------------
(* Vocabulary of the properties *)

\* The records the loaders returned, as they were when returned.
Primary == [i \in 1..Len(metaforge_items) |-> loaded[metaforge_items[i]].fields]

Secondary == [i \in 1..Len(raidtheory_items) |-> loaded[raidtheory_items[i]].fields]

\* merge_items has returned a list.
Returned == pc = "merged"

KeysOf(items) == {item_key(items[i]) : i \in 1..Len(items)}

DistinctKeys(items) ==
  \A i \in 1..Len(items) : \A j \in 1..Len(items) :
    i # j => item_key(items[i]) # item_key(items[j])

\* The returned record that was stored under key k.
OutputFor(k) == merged_items[CHOOSE i \in 1..Len(out_keys) : out_keys[i] = k]

\* The last record of items that derives key k.
LastWithKey(items, k) ==
  items[CHOOSE i \in 1..Len(items) :
          /\ item_key(items[i]) = k
          /\ \A j \in (i + 1)..Len(items) : item_key(items[j]) # k]

\* null, empty text, empty list, empty mapping.
EmptyValues == {None, Str(<<>>), List(<<>>), Dict(<<>>)}

\* Records a and b agree on field f: both lack it, or both hold the same value.
SameField(a, b, f) == Has(a, f) = Has(b, f) /\ (Has(a, f) => At(a, f) = At(b, f))

\* A record as a mapping, the order of its fields forgotten.
AsMap(d) == [f \in {d[i][1] : i \in 1..Len(d)} |-> At(d, f)]

\* Two lists hold the same records the same number of times, in any order.
SameCollection(a, b) ==
  /\ Len(a) = Len(b)
  /\ \A i \in 1..Len(a) :
       Cardinality({j \in 1..Len(a) : AsMap(a[j]) = AsMap(a[i])})
         = Cardinality({j \in 1..Len(b) : AsMap(b[j]) = AsMap(a[i])})

\* The composite key of the canonical order: the name and the id as lower-cased
\* text, empty text for an absent field.
CompositeKey(r) ==
  << IF Has(r, F_name) THEN Lower(PyStr(At(r, F_name))) ELSE <<>>,
     IF Has(r, F_id) THEN Lower(PyStr(At(r, F_id))) ELSE <<>> >>

\* The place of key k among the keys in the order they were first inserted.
FirstInsertion(k) ==
  CHOOSE i \in 1..Len(Primary \o Secondary) :
    /\ item_key((Primary \o Secondary)[i]) = k
    /\ \A j \in 1..(i - 1) : item_key((Primary \o Secondary)[j]) # k

---------------------------------------------------------------------------
(* C1 *)

\* C1, as stated: whenever a primary record and a secondary record derive the
\* same key and the secondary record holds an empty value for a field, the
\* returned record for that key agrees with that primary record on the field.
OverlayNonDestructionAnyRecords ==
  Returned =>
    \A i \in 1..Len(Primary) : \A j \in 1..Len(Secondary) : \A n \in 1..Len(Secondary[j]) :
      (item_key(Primary[i]) = item_key(Secondary[j]) /\ Secondary[j][n][2] \in EmptyValues)
        => SameField(OutputFor(item_key(Secondary[j])), Primary[i], Secondary[j][n][1])

\* C1, amended: when a key is derived by primary and secondary records, and a
\* secondary record of that key holds an empty value for a field that no
\* secondary record of that key holds a non-empty value for, the returned
\* record for the key agrees on that field with the last primary record of
\* the key: same value, or absent in both.
OverlayNonDestruction ==
  Returned =>
    \A j \in 1..Len(Secondary) : \A n \in 1..Len(Secondary[j]) :
      LET k == item_key(Secondary[j])
          f == Secondary[j][n][1]
      IN ( /\ k \in KeysOf(Primary)
           /\ Secondary[j][n][2] \in EmptyValues
           /\ \A j2 \in 1..Len(Secondary) :
                (item_key(Secondary[j2]) = k /\ Has(Secondary[j2], f))
                  => At(Secondary[j2], f) \in EmptyValues )
         => SameField(OutputFor(k), LastWithKey(Primary, k), f)

\* A primary record with x = "p", y = [1] met a secondary record of the same
\* key with x = "", y = [], and the result kept "p" and [1].
OverlayNonDestructionWitness ==
  /\ Returned
  /\ Primary = <<P_a.fields>>
  /\ \E j \in 1..Len(Secondary) : Secondary[j] = S_a_empty.fields
  /\ \E j \in 1..Len(Secondary) : Secondary[j] = S_a_null.fields
  /\ At(merged_items[1], F_x) = Str(<<"p">>)
  /\ At(merged_items[1], F_y) = List(<<1>>)

---------------------------------------------------------------------------
(* C2 *)

\* C2, as stated: whenever a primary record and a secondary record derive the
\* same key and the secondary record holds a non-empty value for a field, the
\* returned record for that key holds that value for the field.
OverlayPrecedenceAnyRecord ==
  Returned =>
    \A j \in 1..Len(Secondary) : \A n \in 1..Len(Secondary[j]) :
      LET k == item_key(Secondary[j])
          f == Secondary[j][n][1]
      IN (k \in KeysOf(Primary) /\ Secondary[j][n][2] \notin EmptyValues)
         => /\ Has(OutputFor(k), f)
            /\ At(OutputFor(k), f) = Secondary[j][n][2]

\* C2, amended: when a primary record and a secondary record derive the same
\* key, the secondary record holds a non-empty value for a field, and no
\* later secondary record of that key holds a non-empty value for the field,
\* the returned record for the key holds the secondary record's value,
\* whatever the primary held.
OverlayPrecedence ==
  Returned =>
    \A j \in 1..Len(Secondary) : \A n \in 1..Len(Secondary[j]) :
      LET k == item_key(Secondary[j])
          f == Secondary[j][n][1]
      IN ( /\ k \in KeysOf(Primary)
           /\ Secondary[j][n][2] \notin EmptyValues
           /\ \A j2 \in (j + 1)..Len(Secondary) :
                (item_key(Secondary[j2]) = k /\ Has(Secondary[j2], f))
                  => At(Secondary[j2], f) \in EmptyValues )
         => /\ Has(OutputFor(k), f)
            /\ At(OutputFor(k), f) = Secondary[j][n][2]

\* The primary held the text "p" for x, the secondary the integer 0, and the
\* result holds the integer.
OverlayPrecedenceWitness ==
  /\ Returned
  /\ Primary = <<P_a.fields>>
  /\ Secondary = <<S_a_zero.fields>>
  /\ At(merged_items[1], F_x) = Int_(0)

---------------------------------------------------------------------------
(* C3 *)

\* C3, as stated: when no key of the secondary list is a key of the primary
\* list, the result has len(A) + len(B) records.
SizeDisjointByLength ==
  (Returned /\ KeysOf(Primary) \cap KeysOf(Secondary) = {})
    => Len(merged_items) = Len(Primary) + Len(Secondary)

\* C3, amended: when no key of the secondary list is a key of the primary
\* list, the result has as many records as the primary list has distinct keys
\* plus the secondary list has distinct keys.
SizeDisjointByKeys ==
  (Returned /\ KeysOf(Primary) \cap KeysOf(Secondary) = {})
    => Len(merged_items) = Cardinality(KeysOf(Primary)) + Cardinality(KeysOf(Secondary))

\* Two primary and two secondary records, no key shared between the lists,
\* one key repeated inside the primary list.
SizeDisjointWitness ==
  /\ Returned
  /\ Len(Primary) = MaxPrimary
  /\ Len(Secondary) = MaxSecondary
  /\ KeysOf(Primary) \cap KeysOf(Secondary) = {}
  /\ ~DistinctKeys(Primary)
  /\ DistinctKeys(Secondary)
  /\ Len(merged_items) = Len(Primary) + Len(Secondary) - 1

---------------------------------------------------------------------------
(* C5 *)

\* C5, as stated: with an empty primary list the result is the records of the
\* secondary list, with an empty secondary list those of the primary list.
EmptySourceAnyList ==
  Returned =>
    /\ Len(Primary) = 0 => SameCollection(merged_items, Secondary)
    /\ Len(Secondary) = 0 => SameCollection(merged_items, Primary)

\* C5, amended: with an empty primary list and a secondary list whose records
\* derive different keys, the result is the records of the secondary list, in
\* any order; likewise with the lists exchanged; two empty lists give the
\* empty list.
EmptySource ==
  Returned =>
    /\ (Len(Primary) = 0 /\ DistinctKeys(Secondary)) => SameCollection(merged_items, Secondary)
    /\ (Len(Secondary) = 0 /\ DistinctKeys(Primary)) => SameCollection(merged_items, Primary)
    /\ (Len(Primary) = 0 /\ Len(Secondary) = 0) => merged_items = <<>>

\* No primary record, two secondary records of different keys, one of them
\* with an empty field, which the result still holds.
EmptySourceWitness ==
  /\ Returned
  /\ Len(Primary) = 0
  /\ Len(Secondary) = MaxSecondary
  /\ DistinctKeys(Secondary)
  /\ \E j \in 1..Len(Secondary) : Secondary[j] = S_d.fields
  /\ \E i \in 1..Len(merged_items) :
       Has(merged_items[i], F_x) /\ At(merged_items[i], F_x) = Str(<<>>)

---------------------------------------------------------------------------
(* C7 *)

\* C7: the returned list is in non-decreasing order of the composite key,
\* records with equal composite keys are in the order their keys were first
\* inserted, and every record's fields are in ascending order of name.
CanonicalOrder ==
  Returned =>
    /\ \A i \in 1..(Len(merged_items) - 1) :
         ~TupleLess(CompositeKey(merged_items[i + 1]), CompositeKey(merged_items[i]))
    /\ \A i \in 1..Len(merged_items) : \A j \in (i + 1)..Len(merged_items) :
         CompositeKey(merged_items[i]) = CompositeKey(merged_items[j])
           => FirstInsertion(out_keys[i]) < FirstInsertion(out_keys[j])
    /\ \A i \in 1..Len(merged_items) : \A n \in 1..(Len(merged_items[i]) - 1) :
         StrLess(merged_items[i][n][1], merged_items[i][n + 1][1])

\* The sort moved a record forward, two returned records tie on the composite
\* key, and a record's fields were reordered.
CanonicalOrderWitness ==
  /\ Returned
  /\ Len(merged_items) >= 3
  /\ out_keys[1] # item_key((Primary \o Secondary)[1])
  /\ \E i \in 1..(Len(merged_items) - 1) :
       CompositeKey(merged_items[i]) = CompositeKey(merged_items[i + 1])
  /\ \E i \in 1..Len(Primary) : Primary[i] = P_a3.fields
  /\ \E i \in 1..Len(merged_items) : Keys(merged_items[i]) = <<F_id, F_name, F_slug>>

---------------------------------------------------------------------------
(* C8 *)

\* C8: sorting and normalising an already sorted and normalised list returns
\* it unchanged.
CanonicalizeIdempotent == canon_pc = "twice" => canon_twice = canon_once

\* A list that the first application changed and that holds two different
\* records with the same composite key.
CanonicalizeIdempotentWitness ==
  /\ canon_pc = "twice"
  /\ canon_once # canon_in
  /\ \E i \in 1..Len(canon_in) : \E j \in 1..Len(canon_in) :
       /\ canon_in[i] # canon_in[j]
       /\ CompositeKey(canon_in[i]) = CompositeKey(canon_in[j])

---------------------------------------------------------------------------
(* C9 *)

\* C9: when merge_items has returned, the two input lists are the lists that
\* were passed and every input record has the fields and values it had.
InputsUnchanged ==
  Returned =>
    /\ metaforge_items = [i \in 1..Len(metaforge_items) |-> i]
    /\ raidtheory_items = [i \in 1..Len(raidtheory_items) |-> Len(metaforge_items) + i]
    /\ Len(loaded) = Len(metaforge_items) + Len(raidtheory_items)
    /\ \A r \in 1..Len(loaded) : heap[r] = loaded[r]

\* A primary record was overlaid by two secondary records, and its copy in
\* merged differs from it.
InputsUnchangedWitness ==
  /\ Returned
  /\ Primary = <<P_a.fields>>
  /\ Secondary = <<S_a_zero.fields, S_a_by_name.fields>>
  /\ heap[merged[1][2]] # loaded[1]
  /\ Has(merged_items[1], F_name)

---------------------------------------------------------------------------
(* C10 *)

\* C10: no two returned records derive the same key, and each returned record
\* derives the key it was stored under.
ResultKeysUnique ==
  Returned =>
    /\ DistinctKeys(merged_items)
    /\ \A i \in 1..Len(merged_items) : item_key(merged_items[i]) = out_keys[i]

---------------------------------------------------------------------------
(* C4 *)

\* The key as C4 words it: the first of id, slug, name that holds text or an
\* integer, a boolean being skipped.
RECURSIVE claimed_key_from(_, _)
claimed_key_from(item, n) ==
  IF n > Len(KeyFields) THEN JsonDumpsSorted(item)
  ELSE IF Has(item, KeyFields[n]) /\ IsStrOrIntNoBool(At(item, KeyFields[n]))
       THEN Strip(Lower(PyStr(At(item, KeyFields[n]))))
       ELSE claimed_key_from(item, n + 1)

\* C4: item_key returns the key as C4 words it.
KeyDerivation == key_pc = "returned" => key_out = claimed_key_from(key_item, 1)

---------------------------------------------------------------------------
(* C6 *)

Ended == pc \in {"done", "raised"}

\* C6: when the run has ended, the writer was invoked exactly if both loads
\* returned; if not, the output file is as it was; no collaborator was
\* called twice.
WriterIffLoadsReturned ==
  Ended =>
    /\ calls.write = 1 <=> (calls.metaforge_returned = 1 /\ calls.raidtheory_returned = 1)
    /\ calls.write = 0 => output_file = OldOutput
    /\ calls.metaforge <= 1 /\ calls.raidtheory <= 1 /\ calls.write <= 1

\* The part of C6 about failed loads: a run in which a load raised never
\* invokes the writer and leaves the output file as it was, and no load is
\* called twice.
NoWriteAfterFailedLoad ==
  /\ calls.metaforge <= 1 /\ calls.raidtheory <= 1 /\ calls.write <= 1
  /\ (calls.metaforge_returned = 0 \/ calls.raidtheory_returned = 0)
       => (calls.write = 0 /\ output_file = OldOutput)
  /\ (pc = "raised" /\ err # "AttributeError")
       <=> (calls.metaforge > calls.metaforge_returned
            \/ calls.raidtheory > calls.raidtheory_returned)

====
